---- MODULE Spec2Model ----
(***************************************************************************)
(* Fun Casino API (src/main.py, src/schemas.py): the three collections of  *)
(* the document store (player, blackjackhand, gameresult) and one action   *)
(* per HTTP handler.  A handler runs atomically in every specification    *)
(* but SpecConcurrent, where the requests in flight take one database read *)
(* or write per step.  The outcome of random.shuffle / random.choices /    *)
(* random.choice is an input of the step that calls it.                    *)
(***************************************************************************)
EXTENDS Integers, Sequences, FiniteSets, TLC

VARIABLES player, blackjackhand, gameresult, resp, inflight

vars == <<player, blackjackhand, gameresult, resp, inflight>>
db == <<player, blackjackhand, gameresult>>

(***************************************************************************)
(* Bounds of the model.                                                    *)
(***************************************************************************)
\* most blackjackhand records ever inserted
MaxHands == 2
\* most gameresult records ever inserted
MaxResults == 2
\* most cards of a hand whose value is computed on its own
MaxCards == 4
\* most requests ever in flight together
MaxRequests == 2

(***************************************************************************)
(* Program constants.                                                      *)
(***************************************************************************)
RANKS == <<"A", "2", "3", "4", "5", "6", "7", "8", "9", "10", "J", "Q", "K">>
SUITS == <<"S", "H", "D", "C">>
DECKS == 6
MIN_BET == 1
MAX_BET == 1000
DEFAULT_BALANCE == 1000
symbols == <<"cherry", "lemon", "bell", "star", "seven", "clover">>

CARD_VALUES ==
  [r \in {RANKS[i] : i \in 1..Len(RANKS)} |->
     CASE r = "A" -> 11
       [] r = "2" -> 2 [] r = "3" -> 3 [] r = "4" -> 4 [] r = "5" -> 5
       [] r = "6" -> 6 [] r = "7" -> 7 [] r = "8" -> 8 [] r = "9" -> 9
       [] OTHER -> 10]

Max(a, b) == IF a >= b THEN a ELSE b
Last(s) == s[Len(s)]
Front(s) == SubSeq(s, 1, Len(s) - 1)

(***************************************************************************)
(* Cards.  A card token is rank followed by one suit glyph; the model      *)
(* keeps it as the pair <<rank, suit>>, and c[:-1] is its first component. *)
(***************************************************************************)
Rank(c) == c[1]

RECURSIVE SumValues(_)
SumValues(cards) ==
  IF cards = <<>> THEN 0
  ELSE CARD_VALUES[Rank(cards[1])] + SumValues(Tail(cards))

RECURSIVE CountAces(_)
CountAces(cards) ==
  IF cards = <<>> THEN 0
  ELSE (IF Rank(cards[1]) = "A" THEN 1 ELSE 0) + CountAces(Tail(cards))

\* the demotion that stops after one ace
DemoteOnce(total, aces) ==
  IF total > 21 /\ aces > 0 THEN total - 10 ELSE total

RECURSIVE Demote(_, _)
Demote(total, aces) ==
  IF total > 21 /\ aces > 0 THEN Demote(total - 10, aces - 1) ELSE total

hand_value(cards) == Demote(SumValues(cards), CountAces(cards))

(***************************************************************************)
(* The shoe.  make_shoe builds RANKS x SUITS repeated `decks` times,       *)
(* shuffles it and burns (pops) one card.  Cards are popped from the end   *)
(* of the list, so only the end of a shuffled list is ever dealt: a shoe   *)
(* of the model is the list of the cards a shuffle puts last, the card to  *)
(* burn at its end, and the shuffle's outcome is the choice of one of the  *)
(* lists of the specification.  Spec and SpecTable keep only the end of a  *)
(* shuffle, so they also reach the empty shoe that the reshuffle branches  *)
(* of the handlers are written for; SpecShoe shuffles the whole list.      *)
(***************************************************************************)
DeckList(ranks, suits, decks) ==
  LET n == Len(ranks) * Len(suits)
  IN  [i \in 1..(n * decks) |->
         LET k == (i - 1) % n
         IN  <<ranks[(k \div Len(suits)) + 1], suits[(k % Len(suits)) + 1]>>]

Count(seq, x) == Cardinality({i \in 1..Len(seq) : seq[i] = x})

\* s can be the end of a shuffle of deck
IsShuffleEnd(s, deck) ==
  /\ Len(s) <= Len(deck)
  /\ \A i \in 1..Len(s) : Count(s, s[i]) <= Count(deck, s[i])

Reverse(s) == [i \in 1..Len(s) |-> s[Len(s) + 1 - i]]

\* The shuffles of the model, each written in the order its cards are popped:
\* player, player, dealer, dealer, then the cards drawn later.  BurnCard is
\* the card the shuffle puts last, which make_shoe burns.
BurnCard == <<"2", "C">>
CardA == <<"A", "S">>
CardK == <<"K", "H">>
Card6 == <<"6", "D">>

NaturalDeals ==
  {<<CardA, CardK, CardK, Card6, Card6, Card6>>,
   <<CardK, Card6, CardA, CardK, Card6, Card6>>,
   <<CardA, CardK, CardK, CardA, Card6, Card6>>}

PlayDeals ==
  {<<CardK, Card6, CardK, Card6, CardK, CardA>>,
   <<Card6, Card6, CardK, CardK, CardA, CardK>>,
   <<CardA, Card6, Card6, CardA, CardK, Card6>>,
   <<CardK, CardK, Card6, Card6, CardA, Card6>>}

Shoes(deals) ==
  {s \in {Reverse(d) \o <<BurnCard>> : d \in deals} :
     IsShuffleEnd(s, DeckList(RANKS, SUITS, DECKS))}

\* one player's table: every deal of the model
TableShoes == Shoes(NaturalDeals \cup PlayDeals)
\* the whole floor: one natural and two deals that are played
FloorShoes ==
  Shoes({<<CardA, CardK, CardK, Card6, Card6, Card6>>,
         <<Card6, Card6, CardK, CardK, CardA, CardK>>})

\* seq without the first occurrence of x
RemoveFirst(seq, x) ==
  LET i == CHOOSE k \in 1..Len(seq) :
             seq[k] = x /\ \A j \in 1..(k - 1) : seq[j] # x
  IN  SubSeq(seq, 1, i - 1) \o SubSeq(seq, i + 1, Len(seq))

RECURSIVE Without(_, _)
Without(seq, cards) ==
  IF cards = <<>> THEN seq
  ELSE Without(RemoveFirst(seq, cards[1]), Tail(cards))

\* random.shuffle of the whole list: the permutation that puts `end` last
\* and leaves the other cards in the order they were built
Shuffle(end) ==
  Without(DeckList(RANKS, SUITS, DECKS), end) \o end

\* whole shuffled lists: a deal where a hit busts the player against a dealer
\* below 17, and a deal where the player can hit twice
ShoeDeals ==
  {<<CardK, Card6, CardK, Card6, CardK, CardA>>,
   <<CardA, Card6, Card6, CardA, CardK, Card6>>}
WholeShoes == {Shuffle(s) : s \in Shoes(ShoeDeals)}

\* the shuffled list returned with no card burned
make_shoe_unburned(shoes) == shoes

\* make_shoe(): shoes is the set of the lists random.shuffle can leave; the
\* last card of the list is burned
make_shoe(shoes) == {Front(s) : s \in shoes}

\* draw(shoe): top up an empty shoe with make_shoe(), then pop the last card.
\* The set of the possible <<card, shoe after>>.
draw(shoe, shoes) ==
  IF shoe = <<>>
  THEN {<<Last(s), Front(s)>> : s \in make_shoe(shoes)}
  ELSE {<<Last(shoe), Front(shoe)>>}

(***************************************************************************)
(* Collections.  A collection is the sequence of its documents in          *)
(* insertion order; a document's _id is its index.                         *)
(***************************************************************************)
\* col.find_one(...): the first matching document's index, 0 when none
FirstIndex(S) == IF S = {} THEN 0 ELSE CHOOSE i \in S : \A j \in S : i <= j

\* find_one with no filter on the username
FindPlayerAny(u) ==
  FirstIndex({i \in 1..Len(player) : TRUE})

FindPlayer(u) ==
  FirstIndex({i \in 1..Len(player) : player[i].username = u})

FindActiveHand(u) ==
  FirstIndex({i \in 1..Len(blackjackhand) :
                /\ blackjackhand[i].username = u
                /\ blackjackhand[i].status = "player_turn"})

\* get_balance, for a username that has a player document
get_balance(u) == player[FindPlayer(u)].balance

\* the balance stored without the floor at zero
NewBalanceUnclamped(old, delta) == old + delta

\* adjust_balance: the balance it stores and returns
NewBalance(old, delta) == Max(0, old + delta)

\* the adjustment applied a second time
adjust_balance_twice(u, delta) ==
  [player EXCEPT ![FindPlayer(u)].balance =
     NewBalance(NewBalance(@, delta), delta)]

adjust_balance(u, delta) ==
  [player EXCEPT ![FindPlayer(u)].balance = NewBalance(@, delta)]

\* create_document("gameresult", GameResult(...))
GameResult(u, game, bet, payout, balance_after, details) ==
  [username |-> u, game |-> game, bet |-> bet, payout |-> payout,
   balance_after |-> balance_after, details |-> details]

\* responses: an HTTPException (status code and detail) or a JSON body
Error(op, u, code, detail) ==
  [op |-> op, username |-> u, code |-> code, detail |-> detail,
   body |-> [none |-> TRUE]]

Reply(op, u, body) ==
  [op |-> op, username |-> u, code |-> 200, detail |-> "", body |-> body]

\* the JSON body of a baccarat round, with the side the request bet on
SideReply(op, u, side, body) ==
  [op |-> op, username |-> u, side |-> side, code |-> 200, detail |-> "",
   body |-> body]

Init ==
  /\ player = <<>>
  /\ blackjackhand = <<>>
  /\ gameresult = <<>>
  /\ resp = Reply("root", "", [message |-> "Fun Casino API running"])
  /\ inflight = <<>>

(***************************************************************************)
(* POST /api/player/register                                               *)
(***************************************************************************)
\* a lookup on the wrong collection finds no player
UsernameTakenInHands(u) ==
  \E i \in 1..Len(blackjackhand) : blackjackhand[i].username = u

\* `existing = col.find_one({"username": player.username}); if existing:`
UsernameTaken(u) == FindPlayer(u) # 0

register_player(u, balance) ==
  IF UsernameTaken(u)
  THEN /\ resp' = Error("register", u, 400, "Username already taken")
       /\ UNCHANGED db
  ELSE /\ player' = Append(player, [username |-> u, balance |-> balance])
       /\ resp' = Reply("register", u,
                        [ok |-> TRUE, id |-> Len(player) + 1,
                         username |-> u, balance |-> balance])
       /\ UNCHANGED <<blackjackhand, gameresult>>

(***************************************************************************)
(* GET /api/player/{username}                                              *)
(***************************************************************************)
get_player(u) ==
  /\ resp' = IF FindPlayer(u) = 0
             THEN Error("get_player", u, 404, "Player not found")
             ELSE Reply("get_player", u,
                        [username |-> u, balance |-> get_balance(u)])
  /\ UNCHANGED db

(***************************************************************************)
(* POST /api/blackjack/start                                               *)
(***************************************************************************)
\* n successive draw(shoe) calls: the set of the possible <<cards, shoe after>>
RECURSIVE DrawN(_, _, _)
DrawN(shoe, n, shoes) ==
  IF n = 0 THEN {<<<<>>, shoe>>}
  ELSE UNION {{<<<<d[1]>> \o r[1], r[2]>> : r \in DrawN(d[2], n - 1, shoes)} :
                d \in draw(shoe, shoes)}

\* shoe = make_shoe(); player_cards = [draw, draw]; dealer_cards = [draw, draw]
StartDeals(shoes) ==
  UNION {{[player_cards |-> SubSeq(r[1], 1, 2),
           dealer_cards |-> SubSeq(r[1], 3, 4),
           shoe |-> r[2]] : r \in DrawN(s, 4, shoes)} : s \in make_shoe(shoes)}

IsNatural(p_val, d_val) == p_val = 21 \/ d_val = 21

\* round(req.bet * 1.5), halves up
BlackjackPayoutRounded(bet) == (bet * 15 + 5) \div 10

\* int(req.bet * 1.5)
BlackjackPayout(bet) == (bet * 15) \div 10

NaturalOutcome(p_val, d_val) ==
  IF p_val = 21 /\ d_val # 21 THEN "blackjack"
  ELSE IF d_val = 21 /\ p_val # 21 THEN "lose"
  ELSE "push"

NaturalPayout(p_val, d_val, bet) ==
  IF p_val = 21 /\ d_val # 21 THEN BlackjackPayout(bet)
  ELSE IF d_val = 21 /\ p_val # 21 THEN 0 - bet
  ELSE 0

BlackjackHand(u, bet, player_cards, dealer_cards, shoe) ==
  [username |-> u, bet |-> bet, player_cards |-> player_cards,
   dealer_cards |-> dealer_cards, shoe |-> shoe,
   status |-> "player_turn", can_double |-> TRUE]

HasActiveHand(u) == FindActiveHand(u) # 0

\* an insert that replaces the username's hand in player_turn, if it has one
HandUpsert(hands, hand) ==
  IF \E i \in 1..Len(hands) :
       hands[i].username = hand.username /\ hands[i].status = "player_turn"
  THEN [i \in 1..Len(hands) |->
          IF hands[i].username = hand.username /\ hands[i].status = "player_turn"
          THEN hand ELSE hands[i]]
  ELSE Append(hands, hand)

\* create_document("blackjackhand", hand): one more document, whatever the
\* collection holds
HandInsert(hands, hand) == Append(hands, hand)

\* the filter with a status that is never stored
StartBlockedDealerTurn(u) ==
  \E i \in 1..Len(blackjackhand) :
    /\ blackjackhand[i].username = u
    /\ blackjackhand[i].status = "dealer_turn"

\* `existing = hand_col.find_one(...); if existing:` of blackjack_start
StartBlocked(u) == FindActiveHand(u) # 0

\* the comparison off by one
InsufficientBalanceOffByOne(u, bet) == get_balance(u) + 1 < bet

\* get_balance(req.username) < req.bet
InsufficientBalance(u, bet) == get_balance(u) < bet

blackjack_start(u, bet, shoes) ==
  IF StartBlocked(u)
  THEN /\ resp' = Error("start", u, 400, "Finish your current hand first")
       /\ UNCHANGED db
  ELSE IF FindPlayer(u) = 0
  THEN /\ resp' = Error("start", u, 404, "Player not found")
       /\ UNCHANGED db
  ELSE IF InsufficientBalance(u, bet)
  THEN /\ resp' = Error("start", u, 400, "Insufficient balance")
       /\ UNCHANGED db
  ELSE \E deal \in StartDeals(shoes) :
         LET p_val == hand_value(deal.player_cards)
             d_val == hand_value(deal.dealer_cards)
             outcome == NaturalOutcome(p_val, d_val)
             payout == NaturalPayout(p_val, d_val, bet)
             new_balance == NewBalance(get_balance(u), payout)
         IN  IF IsNatural(p_val, d_val)
             THEN /\ Len(gameresult) < MaxResults
                  /\ player' = adjust_balance(u, payout)
                  /\ gameresult' = Append(gameresult,
                       GameResult(u, "blackjack", bet, payout, new_balance,
                                  [player |-> deal.player_cards,
                                   dealer |-> deal.dealer_cards,
                                   outcome |-> outcome, natural |-> TRUE]))
                  /\ resp' = Reply("start", u,
                       [status |-> "resolved", player |-> deal.player_cards,
                        dealer |-> deal.dealer_cards, outcome |-> outcome,
                        payout |-> payout, balance |-> new_balance])
                  /\ UNCHANGED blackjackhand
             ELSE /\ Len(blackjackhand) < MaxHands
                  /\ blackjackhand' = HandInsert(blackjackhand,
                       BlackjackHand(u, bet, deal.player_cards,
                                     deal.dealer_cards, deal.shoe))
                  /\ resp' = Reply("start", u,
                       [status |-> "player_turn", player |-> deal.player_cards,
                        dealer |-> deal.dealer_cards, bet |-> bet,
                        can_double |-> TRUE,
                        hand_id |-> Len(blackjackhand) + 1])
                  /\ UNCHANGED <<player, gameresult>>

(***************************************************************************)
(* resolve_and_record, shared by hit (bust), stand and double              *)
(***************************************************************************)
\* `if not shoe: shoe = make_shoe()`: the possible shoes afterwards
Refill(shoe, shoes) == IF shoe = <<>> THEN make_shoe(shoes) ELSE {shoe}

\* draw([]): the last card of a fresh shoe
FreshCards(shoes) == {d[1] : d \in draw(<<>>, shoes)}

\* while d_val < 17: dealer_cards.append(draw([])) -- the possible final lists
RECURSIVE ResolveDealer(_, _)
ResolveDealer(dealer_cards, shoes) ==
  IF hand_value(dealer_cards) < 17
  THEN UNION {ResolveDealer(Append(dealer_cards, c), shoes) :
                c \in FreshCards(shoes)}
  ELSE {dealer_cards}

ResolveOutcome(p_val, d_val) ==
  IF p_val > 21 THEN "bust"
  ELSE IF d_val > 21 \/ p_val > d_val THEN "win"
  ELSE IF p_val < d_val THEN "lose"
  ELSE "push"

ResolvePayout(p_val, d_val, bet) ==
  IF p_val > 21 THEN 0 - bet
  ELSE IF d_val > 21 \/ p_val > d_val THEN bet
  ELSE IF p_val < d_val THEN 0 - bet
  ELSE 0

\* the update with no filter on the username
MarkAllResolved(hands, u) ==
  [i \in 1..Len(hands) |-> [hands[i] EXCEPT !.status = "resolved"]]

\* collection("blackjackhand").update_many({"username": u}, status resolved)
MarkResolved(hands, u) ==
  [i \in 1..Len(hands) |->
     IF hands[i].username = u
     THEN [hands[i] EXCEPT !.status = "resolved"]
     ELSE hands[i]]

\* hands: the blackjackhand collection after the caller's update_one
resolve_and_record(op, u, bet, player_cards, dealer_cards, hands, shoes) ==
  \E final \in ResolveDealer(dealer_cards, shoes) :
    LET p_val == hand_value(player_cards)
        d_val == hand_value(final)
        outcome == ResolveOutcome(p_val, d_val)
        payout == ResolvePayout(p_val, d_val, bet)
    IN  IF FindPlayer(u) = 0
        THEN /\ blackjackhand' = hands
             /\ resp' = Error(op, u, 404, "Player not found")
             /\ UNCHANGED <<player, gameresult>>
        ELSE LET new_balance == NewBalance(get_balance(u), payout)
             IN  /\ Len(gameresult) < MaxResults
                 /\ player' = adjust_balance(u, payout)
                 /\ gameresult' = Append(gameresult,
                      GameResult(u, "blackjack", bet, payout, new_balance,
                                 [player |-> player_cards, dealer |-> final,
                                  outcome |-> outcome]))
                 /\ blackjackhand' = MarkResolved(hands, u)
                 /\ resp' = Reply(op, u,
                      [status |-> "resolved", player |-> player_cards,
                       dealer |-> final, outcome |-> outcome,
                       payout |-> payout, balance |-> new_balance])

(***************************************************************************)
(* POST /api/blackjack/hit                                                 *)
(***************************************************************************)
NoActiveHand(op, u) ==
  /\ resp' = Error(op, u, 404, "No active hand")
  /\ UNCHANGED db

\* the update that leaves can_double as it was
HitUpdateKeepsDouble(hand, player_cards, shoe) ==
  [hand EXCEPT !.player_cards = player_cards, !.shoe = shoe]

\* update_one of a hit that does not bust
HitUpdate(hand, player_cards, shoe) ==
  [hand EXCEPT !.player_cards = player_cards, !.shoe = shoe,
               !.can_double = FALSE]

blackjack_hit(u, shoes) ==
  IF ~HasActiveHand(u) THEN NoActiveHand("hit", u)
  ELSE LET id == FindActiveHand(u)
           hand == blackjackhand[id]
       IN  \E shoe0 \in Refill(hand.shoe, shoes) :
             LET card == Last(shoe0)
                 shoe == Front(shoe0)
                 player_cards == Append(hand.player_cards, card)
             IN  IF hand_value(player_cards) > 21
                 THEN resolve_and_record("hit", u, hand.bet, player_cards,
                        hand.dealer_cards,
                        [blackjackhand EXCEPT
                           ![id].player_cards = player_cards,
                           ![id].shoe = shoe,
                           ![id].status = "resolved"],
                        shoes)
                 ELSE /\ blackjackhand' =
                           [blackjackhand EXCEPT
                              ![id] = HitUpdate(hand, player_cards, shoe)]
                      /\ resp' = Reply("hit", u,
                           [status |-> "player_turn", player |-> player_cards,
                            dealer |-> hand.dealer_cards, bet |-> hand.bet,
                            can_double |-> FALSE])
                      /\ UNCHANGED <<player, gameresult>>

(***************************************************************************)
(* POST /api/blackjack/stand                                               *)
(***************************************************************************)
\* a dealer who also draws on 17
DealerDrawsOn17(dealer_cards) == hand_value(dealer_cards) <= 17

\* the dealer's loop condition, in stand and in double
DealerDraws(dealer_cards) == hand_value(dealer_cards) < 17

\* while hand_value(dealer_cards) < 17: append shoe.pop(), refill if empty
RECURSIVE StandLoop(_, _, _)
StandLoop(dealer_cards, shoe, shoes) ==
  IF DealerDraws(dealer_cards)
  THEN UNION {StandLoop(Append(dealer_cards, Last(shoe)), s, shoes) :
                s \in Refill(Front(shoe), shoes)}
  ELSE {[dealer_cards |-> dealer_cards, shoe |-> shoe]}

blackjack_stand(u, shoes) ==
  IF ~HasActiveHand(u) THEN NoActiveHand("stand", u)
  ELSE LET id == FindActiveHand(u)
           hand == blackjackhand[id]
       IN  \E shoe0 \in Refill(hand.shoe, shoes) :
           \E r \in StandLoop(hand.dealer_cards, shoe0, shoes) :
             resolve_and_record("stand", u, hand.bet, hand.player_cards,
               r.dealer_cards,
               [blackjackhand EXCEPT
                  ![id].dealer_cards = r.dealer_cards,
                  ![id].shoe = r.shoe,
                  ![id].status = "resolved"],
                        shoes)

(***************************************************************************)
(* POST /api/blackjack/double                                              *)
(***************************************************************************)
\* not hand.can_double or len(hand.player_cards) != 2
DoubleNotAllowed(hand) == ~hand.can_double \/ Len(hand.player_cards) # 2

\* the comparison against the doubled bet
CannotCoverDoubledBet(u, current_bet) == get_balance(u) < 2 * current_bet

\* get_balance(req.username) < current_bet
CannotCoverDouble(u, current_bet) == get_balance(u) < current_bet

\* while hand_value(dealer_cards) < 17: refill if empty, append shoe.pop()
RECURSIVE DoubleLoop(_, _, _)
DoubleLoop(dealer_cards, shoe, shoes) ==
  IF DealerDraws(dealer_cards)
  THEN UNION {DoubleLoop(Append(dealer_cards, Last(s)), Front(s), shoes) :
                s \in Refill(shoe, shoes)}
  ELSE {[dealer_cards |-> dealer_cards, shoe |-> shoe]}

blackjack_double(u, shoes) ==
  IF ~HasActiveHand(u) THEN NoActiveHand("double", u)
  ELSE LET id == FindActiveHand(u)
           hand == blackjackhand[id]
       IN  IF DoubleNotAllowed(hand)
           THEN /\ resp' = Error("double", u, 400, "Double not allowed now")
                /\ UNCHANGED db
           ELSE IF FindPlayer(u) = 0
           THEN /\ resp' = Error("double", u, 404, "Player not found")
                /\ UNCHANGED db
           ELSE IF CannotCoverDouble(u, hand.bet)
           THEN /\ resp' = Error("double", u, 400,
                                 "Insufficient balance to double")
                /\ UNCHANGED db
           ELSE \E shoe0 \in Refill(hand.shoe, shoes) :
                \E r \in DoubleLoop(hand.dealer_cards, Front(shoe0), shoes) :
                  LET player_cards == Append(hand.player_cards, Last(shoe0))
                  IN  resolve_and_record("double", u, hand.bet * 2,
                        player_cards, r.dealer_cards,
                        [blackjackhand EXCEPT
                           ![id].player_cards = player_cards,
                           ![id].dealer_cards = r.dealer_cards,
                           ![id].shoe = r.shoe,
                           ![id].status = "resolved"],
                        shoes)

(***************************************************************************)
(* POST /api/slots/spin                                                    *)
(***************************************************************************)
SymbolSet == {symbols[i] : i \in 1..Len(symbols)}

SlotsOutcome(reels) ==
  IF Cardinality({reels[1], reels[2], reels[3]}) = 1 THEN "jackpot"
  ELSE IF reels[1] = reels[2] \/ reels[2] = reels[3] \/ reels[1] = reels[3]
  THEN "win"
  ELSE "lose"

\* the payout that misses the pair on the outer reels
SlotsPayoutAdjacent(reels, bet) ==
  IF Cardinality({reels[1], reels[2], reels[3]}) = 1 THEN bet * 10
  ELSE IF reels[1] = reels[2] \/ reels[2] = reels[3] THEN bet * 2
  ELSE 0 - bet

SlotsPayout(reels, bet) ==
  IF Cardinality({reels[1], reels[2], reels[3]}) = 1 THEN bet * 10
  ELSE IF reels[1] = reels[2] \/ reels[2] = reels[3] \/ reels[1] = reels[3]
  THEN bet * 2
  ELSE 0 - bet

\* reels: the three random.choices draws; cap: the most gameresult records
\* the specification lets the collection hold
SpinUpTo(u, bet, reels, cap) ==
  LET outcome == SlotsOutcome(reels)
      payout == SlotsPayout(reels, bet)
  IN  IF FindPlayer(u) = 0
      THEN /\ resp' = Error("slots", u, 404, "Player not found")
           /\ UNCHANGED db
      ELSE LET new_balance == NewBalance(get_balance(u), payout)
           IN  /\ Len(gameresult) < cap
               /\ player' = adjust_balance(u, payout)
               /\ gameresult' = Append(gameresult,
                    GameResult(u, "slots", bet, payout, new_balance,
                               [reels |-> reels, outcome |-> outcome]))
               /\ resp' = Reply("slots", u,
                    [reels |-> reels, outcome |-> outcome,
                     payout |-> payout, balance |-> new_balance])
               /\ UNCHANGED blackjackhand

spin_slots(u, bet, reels) == SpinUpTo(u, bet, reels, MaxResults)

(***************************************************************************)
(* POST /api/baccarat/play                                                 *)
(***************************************************************************)
card_values ==
  [r \in {RANKS[i] : i \in 1..Len(RANKS)} |->
     CASE r = "A" -> 1
       [] r = "2" -> 2 [] r = "3" -> 3 [] r = "4" -> 4 [] r = "5" -> 5
       [] r = "6" -> 6 [] r = "7" -> 7 [] r = "8" -> 8 [] r = "9" -> 9
       [] OTHER -> 0]

RECURSIVE SumRanks(_)
SumRanks(cards) ==
  IF cards = <<>> THEN 0 ELSE card_values[cards[1]] + SumRanks(Tail(cards))

hand_total(cards) == SumRanks(cards) % 10

\* draws: the successive draw_rank() results, consumed in call order
BaccaratDeal(draws) ==
  LET player2 == <<draws[1], draws[2]>>
      banker2 == <<draws[3], draws[4]>>
      natural == hand_total(player2) \in {8, 9} \/ hand_total(banker2) \in {8, 9}
      pdraws == ~natural /\ hand_total(player2) <= 5
      bdraws == ~natural /\ hand_total(banker2) <= 5
  IN  [player |-> IF pdraws THEN Append(player2, draws[5]) ELSE player2,
       banker |-> IF bdraws
                  THEN Append(banker2, draws[IF pdraws THEN 6 ELSE 5])
                  ELSE banker2]

BaccaratOutcome(player_total, banker_total) ==
  IF player_total > banker_total THEN "player"
  ELSE IF banker_total > player_total THEN "banker"
  ELSE "tie"

\* the banker's win paid without the house commission
BankerPayoutNoCommission(bet) == bet

\* int(req.bet * 0.95)
BankerPayout(bet) == (bet * 95) \div 100

BaccaratPayout(side, outcome, bet) ==
  IF side = outcome
  THEN (IF outcome = "tie" THEN bet * 8
        ELSE IF outcome = "player" THEN bet
        ELSE BankerPayout(bet))
  ELSE 0 - bet

Sides == {"player", "banker", "tie"}

play_baccarat(u, bet, side, draws) ==
  LET deal == BaccaratDeal(draws)
      outcome == BaccaratOutcome(hand_total(deal.player), hand_total(deal.banker))
      payout == BaccaratPayout(side, outcome, bet)
  IN  IF FindPlayer(u) = 0
      THEN /\ resp' = Error("baccarat", u, 404, "Player not found")
           /\ UNCHANGED db
      ELSE LET new_balance == NewBalance(get_balance(u), payout)
           IN  /\ Len(gameresult) < MaxResults
               /\ player' = adjust_balance(u, payout)
               /\ gameresult' = Append(gameresult,
                    GameResult(u, "baccarat", bet, payout, new_balance,
                               [player |-> deal.player, banker |-> deal.banker,
                                result |-> outcome]))
               /\ resp' = SideReply("baccarat", u, side,
                    [player |-> deal.player, banker |-> deal.banker,
                     result |-> outcome, payout |-> payout,
                     balance |-> new_balance])
               /\ UNCHANGED blackjackhand

(***************************************************************************)
(* GET /api/history/{username}                                             *)
(***************************************************************************)
HISTORY_LIMIT == 20

\* the creation time create_document stamps on a document: documents are
\* created one after the other, so it grows with the insertion index
created_at(i) == i

\* col.find({"username": username})
ResultsOf(u) == {i \in 1..Len(gameresult) : gameresult[i].username = u}

\* the cursor sorted with the oldest document first
RECURSIVE SortOldestFirst(_)
SortOldestFirst(S) ==
  IF S = {} THEN <<>>
  ELSE LET m == CHOOSE i \in S : \A j \in S : created_at(i) <= created_at(j)
       IN  <<m>> \o SortOldestFirst(S \ {m})

\* .sort("created_at", -1)
RECURSIVE SortNewestFirst(_)
SortNewestFirst(S) ==
  IF S = {} THEN <<>>
  ELSE LET m == CHOOSE i \in S : \A j \in S : created_at(j) <= created_at(i)
       IN  <<m>> \o SortNewestFirst(S \ {m})

\* .limit(n)
Limit(cursor, n) ==
  SubSeq(cursor, 1, IF Len(cursor) < n THEN Len(cursor) ELSE n)

\* d["_id"] = str(d["_id"]): the document with its identifier as a string
Serialized(i) ==
  [_id |-> <<"str", i>>,
   created_at |-> created_at(i),
   username |-> gameresult[i].username,
   game |-> gameresult[i].game,
   bet |-> gameresult[i].bet,
   payout |-> gameresult[i].payout,
   balance_after |-> gameresult[i].balance_after,
   details |-> gameresult[i].details]

history(u) ==
  LET cursor == Limit(SortNewestFirst(ResultsOf(u)), HISTORY_LIMIT)
      docs == [k \in 1..Len(cursor) |-> Serialized(cursor[k])]
  IN  /\ resp' = Reply("history", u, docs)
      /\ UNCHANGED db

(***************************************************************************)
(* Requests in flight.  A request in flight takes one database read or     *)
(* write per step; inflight holds, for every request, its inputs, its      *)
(* position in the handler (pc) and the handler's local variables.         *)
(***************************************************************************)
Request(op, u, bet, pc) ==
  [op |-> op, username |-> u, bet |-> bet, pc |-> pc,
   deal |-> <<>>, doc |-> 0, balance |-> 0, payout |-> 0, new_balance |-> 0,
   details |-> <<>>, code |-> 0]

\* the handler returns or raises
Respond(r, response) ==
  /\ inflight' = [inflight EXCEPT ![r].pc = "done", ![r].code = response.code]
  /\ resp' = response

\* blackjack_start: existing = hand_col.find_one(...)
StartFindExisting(r) ==
  LET q == inflight[r]
  IN  /\ q.op = "start" /\ q.pc = "find_existing"
      /\ IF StartBlocked(q.username)
         THEN Respond(r, Error("start", q.username, 400,
                                "Finish your current hand first"))
         ELSE /\ inflight' = [inflight EXCEPT ![r].pc = "get_balance"]
              /\ UNCHANGED resp
      /\ UNCHANGED db

\* blackjack_start: get_balance(req.username) < req.bet, then the deal and
\* the test for a natural, which read and write nothing
StartGetBalance(r, shoes) ==
  LET q == inflight[r]
      u == q.username
  IN  /\ q.op = "start" /\ q.pc = "get_balance"
      /\ IF FindPlayer(u) = 0
         THEN Respond(r, Error("start", u, 404, "Player not found"))
         ELSE IF InsufficientBalance(u, q.bet)
         THEN Respond(r, Error("start", u, 400, "Insufficient balance"))
         ELSE \E deal \in StartDeals(shoes) :
                LET p_val == hand_value(deal.player_cards)
                    d_val == hand_value(deal.dealer_cards)
                IN  /\ inflight' =
                         IF IsNatural(p_val, d_val)
                         THEN [inflight EXCEPT
                                 ![r].pc = "find_player",
                                 ![r].deal = deal,
                                 ![r].payout = NaturalPayout(p_val, d_val, q.bet),
                                 ![r].details =
                                   [player |-> deal.player_cards,
                                    dealer |-> deal.dealer_cards,
                                    outcome |-> NaturalOutcome(p_val, d_val),
                                    natural |-> TRUE]]
                         ELSE [inflight EXCEPT ![r].pc = "create_hand",
                                               ![r].deal = deal]
                    /\ UNCHANGED resp
      /\ UNCHANGED db

\* blackjack_start: hand_id = create_document("blackjackhand", hand)
StartCreateHand(r) ==
  LET q == inflight[r]
  IN  /\ q.op = "start" /\ q.pc = "create_hand"
      /\ blackjackhand' = HandInsert(blackjackhand,
           BlackjackHand(q.username, q.bet, q.deal.player_cards,
                         q.deal.dealer_cards, q.deal.shoe))
      /\ Respond(r, Reply("start", q.username,
           [status |-> "player_turn", player |-> q.deal.player_cards,
            dealer |-> q.deal.dealer_cards, bet |-> q.bet,
            can_double |-> TRUE, hand_id |-> Len(blackjackhand) + 1]))
      /\ UNCHANGED <<player, gameresult>>

\* adjust_balance: doc = col.find_one({"username": username})
AdjustFind(r) ==
  LET q == inflight[r]
      u == q.username
  IN  /\ q.pc = "find_player"
      /\ IF FindPlayer(u) = 0
         THEN Respond(r, Error(q.op, u, 404, "Player not found"))
         ELSE /\ inflight' = [inflight EXCEPT
                                ![r].pc = "update_balance",
                                ![r].doc = FindPlayer(u),
                                ![r].balance = player[FindPlayer(u)].balance]
              /\ UNCHANGED resp
      /\ UNCHANGED db

\* the update that adds delta to the balance the document holds by then
BalanceIncremented(read, stored, delta) == NewBalance(stored, delta)

\* adjust_balance: new_balance = max(0, int(doc.get("balance", 0)) + delta),
\* from the document as it was read
BalanceWritten(read, stored, delta) == NewBalance(read, delta)

\* adjust_balance: col.update_one({"_id": doc["_id"]}, {"$set": ...})
AdjustUpdate(r) ==
  LET q == inflight[r]
      new_balance == BalanceWritten(q.balance, player[q.doc].balance, q.payout)
  IN  /\ q.pc = "update_balance"
      /\ player' = [player EXCEPT ![q.doc].balance = new_balance]
      /\ inflight' = [inflight EXCEPT ![r].pc = "create_result",
                                      ![r].new_balance = new_balance]
      /\ UNCHANGED <<blackjackhand, gameresult, resp>>

\* create_document("gameresult", GameResult(...)) and the return
CreateResult(r) ==
  LET q == inflight[r]
      game == IF q.op = "start" THEN "blackjack" ELSE q.op
      body == IF q.op = "start"
              THEN [status |-> "resolved", player |-> q.deal.player_cards,
                    dealer |-> q.deal.dealer_cards,
                    outcome |-> q.details.outcome, payout |-> q.payout,
                    balance |-> q.new_balance]
              ELSE [reels |-> q.details.reels, outcome |-> q.details.outcome,
                    payout |-> q.payout, balance |-> q.new_balance]
  IN  /\ q.pc = "create_result"
      /\ gameresult' = Append(gameresult,
           GameResult(q.username, game, q.bet, q.payout, q.new_balance,
                      q.details))
      /\ Respond(r, Reply(q.op, q.username, body))
      /\ UNCHANGED <<player, blackjackhand>>

\* a blackjack start request arrives
SubmitStart(u, bet) ==
  /\ inflight' = Append(inflight, Request("start", u, bet, "find_existing"))
  /\ UNCHANGED <<db, resp>>

\* a slots spin request arrives: the reels are drawn and the payout computed
\* before adjust_balance is called
SubmitSlots(u, bet, reels) ==
  /\ inflight' = Append(inflight,
       [Request("slots", u, bet, "find_player") EXCEPT
          !.payout = SlotsPayout(reels, bet),
          !.details = [reels |-> reels, outcome |-> SlotsOutcome(reels)]])
  /\ UNCHANGED <<db, resp>>

(***************************************************************************)
(* Spec: the whole floor.  Every handler, two usernames, requests handled  *)
(* one at a time.                                                          *)
(***************************************************************************)
Users == {"ann", "bob"}
Bets == {2}
StartBalances == {1, 3}
FloorReels == {<<"cherry", "lemon", "bell">>}
FloorDraws == {<<"9", "K", "A", "K", "K", "K">>}

Register ==
  /\ \E u \in Users, b \in StartBalances : register_player(u, b)
  /\ UNCHANGED inflight
GetPlayer ==
  /\ \E u \in Users : get_player(u)
  /\ UNCHANGED inflight
Start ==
  /\ \E u \in Users, bet \in Bets : blackjack_start(u, bet, FloorShoes)
  /\ UNCHANGED inflight
Hit ==
  /\ \E u \in Users : blackjack_hit(u, FloorShoes)
  /\ UNCHANGED inflight
Stand ==
  /\ \E u \in Users : blackjack_stand(u, FloorShoes)
  /\ UNCHANGED inflight
Double ==
  /\ \E u \in Users : blackjack_double(u, FloorShoes)
  /\ UNCHANGED inflight
Slots ==
  /\ \E u \in Users, bet \in Bets, reels \in FloorReels :
           spin_slots(u, bet, reels)
  /\ UNCHANGED inflight
Baccarat ==
  /\ \E u \in Users, bet \in Bets, side \in Sides, draws \in FloorDraws :
              play_baccarat(u, bet, side, draws)
  /\ UNCHANGED inflight
History ==
  /\ \E u \in Users : history(u)
  /\ UNCHANGED inflight

Next ==
  \/ Register
  \/ GetPlayer
  \/ Start
  \/ Hit
  \/ Stand
  \/ Double
  \/ Slots
  \/ Baccarat
  \/ History

Spec == Init /\ [][Next]_vars

(***************************************************************************)
(* SpecTable: one player at the blackjack table, with slots on the side,   *)
(* over every deal of the model.                                           *)
(***************************************************************************)
TableUser == "ann"
TableBets == {1, 2}
TableBalances == {0, 3}
TableReels == {<<"cherry", "bell", "cherry">>, <<"cherry", "lemon", "bell">>}

TableRegister ==
  /\ \E b \in TableBalances : register_player(TableUser, b)
  /\ UNCHANGED inflight
TableStart ==
  /\ \E bet \in TableBets : blackjack_start(TableUser, bet, TableShoes)
  /\ UNCHANGED inflight
TableHit ==
  /\ blackjack_hit(TableUser, TableShoes)
  /\ UNCHANGED inflight
TableStand ==
  /\ blackjack_stand(TableUser, TableShoes)
  /\ UNCHANGED inflight
TableDouble ==
  /\ blackjack_double(TableUser, TableShoes)
  /\ UNCHANGED inflight
TableSlots ==
  /\ \E bet \in TableBets, reels \in TableReels :
                spin_slots(TableUser, bet, reels)
  /\ UNCHANGED inflight

TableNext ==
  \/ TableRegister
  \/ TableStart
  \/ TableHit
  \/ TableStand
  \/ TableDouble
  \/ TableSlots

SpecTable == Init /\ [][TableNext]_vars

(***************************************************************************)
(* SpecSlots: one player's first spin, over every triple of symbols and    *)
(* every bet the request model accepts.                                    *)
(***************************************************************************)
SlotsBalances == {0, DEFAULT_BALANCE}
AllReels == SymbolSet \X SymbolSet \X SymbolSet

SlotsRegister ==
  /\ \E b \in SlotsBalances : register_player(TableUser, b)
  /\ UNCHANGED inflight
SlotsSpin ==
  /\ gameresult = <<>>
  /\ \E bet \in MIN_BET..MAX_BET, reels \in AllReels :
       spin_slots(TableUser, bet, reels)
  /\ UNCHANGED inflight

SlotsNext ==
  \/ SlotsRegister
  \/ SlotsSpin

SpecSlots == Init /\ [][SlotsNext]_vars

(***************************************************************************)
(* SpecBaccarat: one player's first baccarat round, over every side, every *)
(* bet the request model accepts and draws that reach every pair of final  *)
(* totals, with and without third cards.                                   *)
(***************************************************************************)
BaccaratBalances == {DEFAULT_BALANCE}
\* one rank of each baccarat value 0..9
ValueRanks == {"K", "A", "2", "3", "4", "5", "6", "7", "8", "9"}
ThirdRanks == {"K", "4"}
AllDraws ==
  {<<"K", a, "K", b, c, "K">> :
     a \in ValueRanks, b \in ValueRanks, c \in ThirdRanks}

BaccaratRegister ==
  /\ \E b \in BaccaratBalances : register_player(TableUser, b)
  /\ UNCHANGED inflight
BaccaratPlay ==
  /\ gameresult = <<>>
  /\ \E bet \in MIN_BET..MAX_BET, side \in Sides, draws \in AllDraws :
       play_baccarat(TableUser, bet, side, draws)
  /\ UNCHANGED inflight

BaccaratNext ==
  \/ BaccaratRegister
  \/ BaccaratPlay

SpecBaccarat == Init /\ [][BaccaratNext]_vars

(***************************************************************************)
(* SpecHistory: two usernames and more rounds than the history returns.    *)
(* ann spins and loses 1 every round; bob, registered or not, spins at     *)
(* most BobRounds times, at any point in between.                          *)
(***************************************************************************)
\* most gameresult records of the history specification
HistoryRounds == 22
\* most gameresult records bob has there
BobRounds == 1
HistoryBalances == {DEFAULT_BALANCE}
HistoryBets == {MIN_BET}

HistoryRegister ==
  /\ \E u \in Users, b \in HistoryBalances : register_player(u, b)
  /\ UNCHANGED inflight
HistorySpin ==
  /\ \E u \in Users, bet \in HistoryBets, reels \in FloorReels :
    /\ u = "bob" => Cardinality(ResultsOf(u)) < BobRounds
    /\ SpinUpTo(u, bet, reels, HistoryRounds)
  /\ UNCHANGED inflight
HistoryRead ==
  /\ \E u \in Users : history(u)
  /\ UNCHANGED inflight

HistoryNext ==
  \/ HistoryRegister
  \/ HistorySpin
  \/ HistoryRead

SpecHistory == Init /\ [][HistoryNext]_vars

(***************************************************************************)
(* SpecShoe: one player at the blackjack table with whole 6-deck shoes.    *)
(***************************************************************************)
ShoeBets == {MIN_BET}
ShoeBalances == {3}

ShoeRegister ==
  /\ \E b \in ShoeBalances : register_player(TableUser, b)
  /\ UNCHANGED inflight
ShoeStart ==
  /\ \E bet \in ShoeBets : blackjack_start(TableUser, bet, WholeShoes)
  /\ UNCHANGED inflight
ShoeHit ==
  /\ blackjack_hit(TableUser, WholeShoes)
  /\ UNCHANGED inflight
ShoeStand ==
  /\ blackjack_stand(TableUser, WholeShoes)
  /\ UNCHANGED inflight
ShoeDouble ==
  /\ blackjack_double(TableUser, WholeShoes)
  /\ UNCHANGED inflight

ShoeNext ==
  \/ ShoeRegister
  \/ ShoeStart
  \/ ShoeHit
  \/ ShoeStand
  \/ ShoeDouble

SpecShoe == Init /\ [][ShoeNext]_vars

(***************************************************************************)
(* SpecHandValue: hand_value applied to every hand of at most MaxCards     *)
(* cards, over all thirteen ranks.                                         *)
(***************************************************************************)
RECURSIVE HandsOf(_)
HandsOf(n) ==
  IF n = 0 THEN {<<>>}
  ELSE LET shorter == HandsOf(n - 1)
       IN  shorter \cup
           {Append(h, <<RANKS[i], SUITS[1]>>) :
              h \in {g \in shorter : Len(g) = n - 1}, i \in 1..Len(RANKS)}

\* one evaluation per behaviour, of any of the hands
HandValue ==
  /\ resp.op = "root"
  /\ \E cards \in HandsOf(MaxCards) :
       /\ resp' = Reply("hand_value", "",
                        [cards |-> cards, value |-> hand_value(cards)])
       /\ UNCHANGED db
  /\ UNCHANGED inflight

HandValueNext ==
  \/ HandValue

SpecHandValue == Init /\ [][HandValueNext]_vars

(***************************************************************************)
(* SpecConcurrent: one player whose blackjack start and slots spin         *)
(* requests, at most MaxRequests of them, interleave read by read and      *)
(* write by write.                                                         *)
(***************************************************************************)
ConcurrentBets == {2}
ConcurrentBalances == {3}

ConcurrentRegister ==
  /\ \E b \in ConcurrentBalances : register_player(TableUser, b)
  /\ UNCHANGED inflight
ConcurrentStart ==
  /\ Len(inflight) < MaxRequests
  /\ \E bet \in ConcurrentBets : SubmitStart(TableUser, bet)
ConcurrentSlots ==
  /\ Len(inflight) < MaxRequests
  /\ \E bet \in ConcurrentBets, reels \in TableReels :
       SubmitSlots(TableUser, bet, reels)
FindExisting == \E r \in 1..Len(inflight) : StartFindExisting(r)
GetBalance == \E r \in 1..Len(inflight) : StartGetBalance(r, FloorShoes)
CreateHand == \E r \in 1..Len(inflight) : StartCreateHand(r)
FindPlayerDoc == \E r \in 1..Len(inflight) : AdjustFind(r)
UpdateBalance == \E r \in 1..Len(inflight) : AdjustUpdate(r)
InsertResult == \E r \in 1..Len(inflight) : CreateResult(r)

ConcurrentNext ==
  \/ ConcurrentRegister
  \/ ConcurrentStart
  \/ ConcurrentSlots
  \/ FindExisting
  \/ GetBalance
  \/ CreateHand
  \/ FindPlayerDoc
  \/ UpdateBalance
  \/ InsertResult

SpecConcurrent == Init /\ [][ConcurrentNext]_vars

(***************************************************************************)
(* Vocabulary of the properties.                                           *)
(***************************************************************************)
PlayersOf(u) == {i \in 1..Len(player) : player[i].username = u}
BalanceIn(players, u) ==
  players[CHOOSE i \in 1..Len(players) : players[i].username = u].balance
OpenHands(hands, u) ==
  {i \in 1..Len(hands) :
     hands[i].username = u /\ hands[i].status = "player_turn"}
\* the step inserts exactly one gameresult and touches no other
Recorded ==
  /\ Len(gameresult') = Len(gameresult) + 1
  /\ SubSeq(gameresult', 1, Len(gameresult)) = gameresult
NewResult == gameresult'[Len(gameresult')]
Floor0(n) == IF n > 0 THEN n ELSE 0
Rejected(r, code, detail) == r.code = code /\ r.detail = detail

(***************************************************************************)
(* C1  Balance floor.  No player's persisted balance is ever negative,     *)
(* and every step that adjusts a balance (the steps that record a round)   *)
(* stores max(0, previous balance + payout) for that player, returns it in *)
(* the response and records it as balance_after.                           *)
(***************************************************************************)
C1_NonNegative == \A i \in 1..Len(player) : player[i].balance >= 0

C1_AdjustStep ==
  gameresult' # gameresult =>
    /\ Recorded
    /\ PlayersOf(NewResult.username) # {}
    /\ BalanceIn(player', NewResult.username) =
         Floor0(BalanceIn(player, NewResult.username) + NewResult.payout)
    /\ NewResult.balance_after = BalanceIn(player', NewResult.username)
    /\ resp'.code = 200
    /\ resp'.body.balance = BalanceIn(player', NewResult.username)

C1_BalanceFloor == [](C1_NonNegative) /\ [][C1_AdjustStep]_vars

\* a loss larger than the balance was absorbed: 1 - 2 stored as 0
C1_Witness ==
  /\ Len(gameresult) = 1
  /\ gameresult[1].payout = -2
  /\ gameresult[1].balance_after = 0
  /\ Len(player) = 1
  /\ player[1].balance = 0
  /\ resp.op = "slots"

(***************************************************************************)
(* C2  One active hand per player.  Every username has at most one         *)
(* blackjackhand record in player_turn, and a start for a username that    *)
(* has one fails with "Finish your current hand first" and changes no      *)
(* collection.                                                             *)
(***************************************************************************)
C2_AtMostOne ==
  \A u \in Users : Cardinality(OpenHands(blackjackhand, u)) <= 1

C2_StartStep ==
  (resp'.op = "start" /\ OpenHands(blackjackhand, resp'.username) # {}) =>
    /\ Rejected(resp', 400, "Finish your current hand first")
    /\ UNCHANGED db

C2_OneActiveHand == [](C2_AtMostOne) /\ [][C2_StartStep]_vars

\* a start was refused while both players have a hand open
C2_Witness ==
  /\ Rejected(resp, 400, "Finish your current hand first")
  /\ \A u \in Users : Cardinality(OpenHands(blackjackhand, u)) = 1

(***************************************************************************)
(* C4  Registration uniqueness.  There is at most one player record per    *)
(* username, and registering an existing username fails with "Username     *)
(* already taken" and changes no collection (the balance stays).           *)
(***************************************************************************)
C4_AtMostOne == \A u \in Users : Cardinality(PlayersOf(u)) <= 1

C4_RegisterStep ==
  (resp'.op = "register" /\ PlayersOf(resp'.username) # {}) =>
    /\ Rejected(resp', 400, "Username already taken")
    /\ UNCHANGED db

C4_RegistrationUnique == [](C4_AtMostOne) /\ [][C4_RegisterStep]_vars

\* a second registration was refused after the first player's balance moved
C4_Witness ==
  /\ Rejected(resp, 400, "Username already taken")
  /\ Len(gameresult) > 0
  /\ \E i \in 1..Len(player) :
       player[i].username = resp.username /\ player[i].balance \notin StartBalances

(***************************************************************************)
(* C3  Double-down eligibility.  A hand in player_turn that has three or   *)
(* more player cards has can_double false, and a double on such a hand     *)
(* fails with "Double not allowed now" and changes no collection, whatever *)
(* the balance.                                                            *)
(***************************************************************************)
C3_HitClearsDouble ==
  \A i \in 1..Len(blackjackhand) :
    (blackjackhand[i].status = "player_turn"
       /\ Len(blackjackhand[i].player_cards) >= 3)
      => ~blackjackhand[i].can_double

C3_DoubleStep ==
  (/\ resp'.op = "double"
   /\ \E i \in OpenHands(blackjackhand, resp'.username) :
        Len(blackjackhand[i].player_cards) >= 3) =>
    /\ Rejected(resp', 400, "Double not allowed now")
    /\ UNCHANGED db

C3_DoubleAfterHit == [](C3_HitClearsDouble) /\ [][C3_DoubleStep]_vars

\* a double was refused on a three-card hand that the balance could cover twice
C3_Witness ==
  /\ Rejected(resp, 400, "Double not allowed now")
  /\ \E i \in OpenHands(blackjackhand, resp.username) :
       /\ Len(blackjackhand[i].player_cards) >= 3
       /\ BalanceIn(player, resp.username) >= 2 * blackjackhand[i].bet

(***************************************************************************)
(* C5  Hit causing bust.  A hit that brings the player's total above 21    *)
(* resolves the hand in that request with outcome "bust" and payout -bet,  *)
(* and the dealer cards of the response and of the recorded GameResult are *)
(* the two cards dealt at start.                                           *)
(***************************************************************************)
C5_BustStep ==
  (/\ resp'.op = "hit"
   /\ resp'.code = 200
   /\ hand_value(resp'.body.player) > 21) =>
    LET h == blackjackhand[CHOOSE i \in OpenHands(blackjackhand, resp'.username) : TRUE]
    IN  /\ resp'.body.status = "resolved"
        /\ resp'.body.outcome = "bust"
        /\ resp'.body.payout = 0 - h.bet
        /\ Recorded
        /\ Len(h.dealer_cards) = 2
        /\ resp'.body.dealer = h.dealer_cards
        /\ NewResult.details.dealer = h.dealer_cards

C5_HitBustDealerUnchanged == [][C5_BustStep]_vars

(***************************************************************************)
(* C6  Insufficient balance, as claimed: a start, spin or baccarat round   *)
(* that is accepted never has a bet above the player's balance.            *)
(***************************************************************************)
PlacedBet ==
  IF gameresult' # gameresult THEN NewResult.bet
  ELSE blackjackhand'[Len(blackjackhand')].bet

C6_OriginalStep ==
  (resp'.op \in {"start", "slots", "baccarat"} /\ db' # db) =>
    PlacedBet <= BalanceIn(player, resp'.username)

C6_AmendedStep ==
  /\ (resp'.op = "start" /\ db' # db) =>
       /\ resp'.code = 200
       /\ PlacedBet <= BalanceIn(player, resp'.username)
  /\ (resp'.op = "start" /\ db' = db) => resp'.code \in {400, 404}
  /\ (resp'.op \in {"slots", "baccarat"} /\ PlayersOf(resp'.username) # {}) =>
       /\ resp'.code = 200
       /\ Recorded
       /\ NewResult.game = resp'.op
       /\ UNCHANGED blackjackhand
       /\ BalanceIn(player', resp'.username) =
            Floor0(BalanceIn(player, resp'.username) + NewResult.payout)

TenRanks == {"10", "J", "Q", "K"}
AceAndTen(cards) ==
  /\ Len(cards) = 2
  /\ \/ Rank(cards[1]) = "A" /\ Rank(cards[2]) \in TenRanks
     \/ Rank(cards[2]) = "A" /\ Rank(cards[1]) \in TenRanks

C7_StartStep ==
  (resp'.op = "start" /\ resp'.code = 200) =>
    LET b == resp'.body
        u == resp'.username
        pnat == AceAndTen(b.player)
        dnat == AceAndTen(b.dealer)
    IN  /\ Len(b.player) = 2 /\ Len(b.dealer) = 2
        /\ (b.status = "resolved") <=> (pnat \/ dnat)
        /\ (pnat \/ dnat) =>
             /\ Recorded
             /\ UNCHANGED blackjackhand
             /\ NewResult.username = u /\ NewResult.game = "blackjack"
             /\ NewResult.payout = b.payout
             /\ NewResult.details.outcome = b.outcome
             /\ (pnat /\ ~dnat) =>
                  /\ b.outcome = "blackjack"
                  /\ 2 * b.payout <= 3 * NewResult.bet
                  /\ 3 * NewResult.bet < 2 * b.payout + 2
             /\ (dnat /\ ~pnat) =>
                  /\ b.outcome = "lose"
                  /\ b.payout = 0 - NewResult.bet
             /\ (pnat /\ dnat) => (b.outcome = "push" /\ b.payout = 0)
             /\ BalanceIn(player', u) = Floor0(BalanceIn(player, u) + b.payout)
             /\ b.balance = BalanceIn(player', u)
        /\ ~(pnat \/ dnat) =>
             /\ b.status = "player_turn"
             /\ Len(blackjackhand') = Len(blackjackhand) + 1
             /\ SubSeq(blackjackhand', 1, Len(blackjackhand)) = blackjackhand
             /\ blackjackhand'[Len(blackjackhand')].status = "player_turn"
             /\ blackjackhand'[Len(blackjackhand')].player_cards = b.player
             /\ blackjackhand'[Len(blackjackhand')].dealer_cards = b.dealer
             /\ UNCHANGED <<player, gameresult>>

C7_NaturalAtStart == [][C7_StartStep]_vars

\* a player's natural on a bet of 1 paid 1
C7_Witness ==
  /\ resp.op = "start" /\ resp.code = 200
  /\ resp.body.status = "resolved"
  /\ resp.body.outcome = "blackjack"
  /\ gameresult[Len(gameresult)].bet = 1
  /\ resp.body.payout = 1

(***************************************************************************)
(* C8  Stand.  A stand on an open hand leaves the player's cards as they   *)
(* are; the dealer draws exactly while the dealer total is below 17, from  *)
(* the end of the hand's shoe as long as the shoe has cards; the round is  *)
(* recorded on the hand's bet as win (+bet) when the dealer is over 21 or  *)
(* the player is higher, lose (-bet) when the player is lower, push (0)    *)
(* when the totals are equal.                                              *)
(***************************************************************************)
C8_StandStep ==
  (resp'.op = "stand" /\ OpenHands(blackjackhand, resp'.username) # {}) =>
    LET i == CHOOSE j \in OpenHands(blackjackhand, resp'.username) : TRUE
        h == blackjackhand[i]
        b == resp'.body
        n0 == Len(h.dealer_cards)
        pv == hand_value(h.player_cards)
        dv == hand_value(b.dealer)
    IN  /\ resp'.code = 200
        /\ b.status = "resolved"
        /\ b.player = h.player_cards
        /\ blackjackhand'[i].player_cards = h.player_cards
        /\ blackjackhand'[i].dealer_cards = b.dealer
        /\ blackjackhand'[i].status = "resolved"
        /\ Len(b.dealer) >= n0
        /\ SubSeq(b.dealer, 1, n0) = h.dealer_cards
        /\ \A k \in n0..(Len(b.dealer) - 1) :
             hand_value(SubSeq(b.dealer, 1, k)) < 17
        /\ dv >= 17
        /\ \A j \in 1..(Len(b.dealer) - n0) :
             j <= Len(h.shoe) => b.dealer[n0 + j] = h.shoe[Len(h.shoe) + 1 - j]
        /\ Recorded
        /\ NewResult.bet = h.bet
        /\ NewResult.payout = b.payout
        /\ NewResult.details.player = h.player_cards
        /\ NewResult.details.dealer = b.dealer
        /\ NewResult.details.outcome = b.outcome
        /\ pv <= 21
        /\ IF dv > 21 \/ pv > dv THEN b.outcome = "win" /\ b.payout = h.bet
           ELSE IF pv < dv THEN b.outcome = "lose" /\ b.payout = 0 - h.bet
           ELSE b.outcome = "push" /\ b.payout = 0

C8_Stand == [][C8_StandStep]_vars

\* the dealer drew two cards and stopped at 19, below the player's 20
C8_Witness ==
  /\ resp.op = "stand" /\ resp.code = 200
  /\ Len(resp.body.dealer) = 4
  /\ hand_value(resp.body.dealer) = 19
  /\ resp.body.outcome = "win"

(***************************************************************************)
(* C9  Double.  A double on an open two-card hand with can_double set      *)
(* fails with "Insufficient balance to double", changing nothing, exactly  *)
(* when the balance is below the hand's bet; otherwise the player gets one *)
(* more card, the dealer is played to 17 or more, the hand is resolved and *)
(* the round is recorded on twice the bet, paying -2*bet, 0 or +2*bet.     *)
(***************************************************************************)
C9_DoubleStep ==
  (/\ resp'.op = "double"
   /\ \E j \in OpenHands(blackjackhand, resp'.username) :
        blackjackhand[j].can_double /\ Len(blackjackhand[j].player_cards) = 2) =>
    LET i == CHOOSE j \in OpenHands(blackjackhand, resp'.username) : TRUE
        h == blackjackhand[i]
        b == resp'.body
        bal == BalanceIn(player, resp'.username)
    IN  /\ Rejected(resp', 400, "Insufficient balance to double") <=> bal < h.bet
        /\ bal < h.bet => UNCHANGED db
        /\ bal >= h.bet =>
             /\ resp'.code = 200
             /\ b.status = "resolved"
             /\ Len(b.player) = 3
             /\ SubSeq(b.player, 1, 2) = h.player_cards
             /\ SubSeq(b.dealer, 1, Len(h.dealer_cards)) = h.dealer_cards
             /\ hand_value(b.dealer) >= 17
             /\ blackjackhand'[i].status = "resolved"
             /\ blackjackhand'[i].player_cards = b.player
             /\ blackjackhand'[i].dealer_cards = b.dealer
             /\ Recorded
             /\ NewResult.bet = 2 * h.bet
             /\ NewResult.payout = b.payout
             /\ b.payout \in {0 - 2 * h.bet, 0, 2 * h.bet}

C9_Double == [][C9_DoubleStep]_vars

\* a double was refused after a slots loss left less than the hand's bet
C9_Witness ==
  /\ Rejected(resp, 400, "Insufficient balance to double")
  /\ \E i \in OpenHands(blackjackhand, resp.username) :
       /\ blackjackhand[i].can_double
       /\ Len(blackjackhand[i].player_cards) = 2
       /\ 0 < BalanceIn(player, resp.username)
       /\ BalanceIn(player, resp.username) < blackjackhand[i].bet

(***************************************************************************)
(* C10  Slots payout.  For every triple of symbols and every bet from 1 to *)
(* 1000: three equal reels are a jackpot paying 10 * bet, exactly one pair *)
(* of equal reels in any positions is a win paying 2 * bet, three distinct *)
(* reels lose the bet; the balance moves by that payout, floored at zero.  *)
(***************************************************************************)
EqualPairs(r) ==
  (IF r[1] = r[2] THEN 1 ELSE 0) + (IF r[2] = r[3] THEN 1 ELSE 0)
    + (IF r[1] = r[3] THEN 1 ELSE 0)

C10_SpinStep ==
  (resp'.op = "slots" /\ resp'.code = 200) =>
    LET b == resp'.body
        u == resp'.username
        pairs == EqualPairs(b.reels)
    IN  /\ Recorded
        /\ NewResult.bet \in MIN_BET..MAX_BET
        /\ NewResult.username = u /\ NewResult.game = "slots"
        /\ NewResult.payout = b.payout
        /\ NewResult.details.reels = b.reels
        /\ NewResult.details.outcome = b.outcome
        /\ pairs \in {0, 1, 3}
        /\ pairs = 3 => (b.outcome = "jackpot" /\ b.payout = 10 * NewResult.bet)
        /\ pairs = 1 => (b.outcome = "win" /\ b.payout = 2 * NewResult.bet)
        /\ pairs = 0 => (b.outcome = "lose" /\ b.payout = 0 - NewResult.bet)
        /\ BalanceIn(player', u) = Floor0(BalanceIn(player, u) + b.payout)
        /\ b.balance = BalanceIn(player', u)
        /\ NewResult.balance_after = b.balance

C10_SlotsPayout == [][C10_SpinStep]_vars

\* the outer reels pair up on the largest bet
C10_Witness ==
  /\ resp.op = "slots" /\ resp.code = 200
  /\ resp.body.reels[1] = resp.body.reels[3]
  /\ resp.body.reels[1] # resp.body.reels[2]
  /\ resp.body.outcome = "win"
  /\ resp.body.payout = 2 * MAX_BET

(***************************************************************************)
(* C11  Baccarat payout.  For every pair of final totals, every side and   *)
(* every bet from 1 to 1000: the result is the side with the strictly      *)
(* higher total, or a tie on equal totals; the payout is 8 * bet on a tie  *)
(* bet that ties, +bet on a player bet that wins, floor(95 * bet / 100) on *)
(* a banker bet that wins, and -bet in every other case.                   *)
(***************************************************************************)
C11_PlayStep ==
  (resp'.op = "baccarat" /\ resp'.code = 200) =>
    LET b == resp'.body
        bet == NewResult.bet
        side == resp'.side
        pt == hand_total(b.player)
        bt == hand_total(b.banker)
    IN  /\ Recorded
        /\ bet \in MIN_BET..MAX_BET
        /\ NewResult.game = "baccarat"
        /\ NewResult.payout = b.payout
        /\ NewResult.details.result = b.result
        /\ pt > bt => b.result = "player"
        /\ bt > pt => b.result = "banker"
        /\ pt = bt => b.result = "tie"
        /\ side \in Sides
        /\ b.payout =
             CASE side = b.result /\ side = "tie" -> 8 * bet
               [] side = b.result /\ side = "player" -> bet
               [] side = b.result /\ side = "banker" -> (95 * bet) \div 100
               [] OTHER -> 0 - bet

C11_BaccaratPayout == [][C11_PlayStep]_vars

\* a banker bet of 1 wins on 9 against 7 after third cards, and pays 0
C11_Witness ==
  /\ resp.op = "baccarat" /\ resp.code = 200
  /\ resp.side = "banker" /\ resp.body.result = "banker"
  /\ Len(resp.body.banker) = 3 /\ Len(resp.body.player) = 2
  /\ hand_total(resp.body.banker) = 9 /\ hand_total(resp.body.player) = 7
  /\ gameresult[Len(gameresult)].bet = 1
  /\ resp.body.payout = 0

(***************************************************************************)
(* C12  History ordering and cap.  After n recorded rounds of a username,  *)
(* its history holds exactly min(n, 20) records, all of that username, the *)
(* most recently created ones with the newest first; a username without    *)
(* records, registered or not, gets an empty list and no error; and the    *)
(* read changes no collection.                                             *)
(***************************************************************************)
\* the k-th newest record of u: k - 1 records of u were created after it
Newest(u, k) ==
  CHOOSE i \in 1..Len(gameresult) :
    /\ gameresult[i].username = u
    /\ Cardinality({j \in (i + 1)..Len(gameresult) :
                      gameresult[j].username = u}) = k - 1

C12_ReadStep ==
  resp'.op = "history" =>
    LET u == resp'.username
        docs == resp'.body
        n == Cardinality({i \in 1..Len(gameresult) :
                            gameresult[i].username = u})
    IN  /\ resp'.code = 200
        /\ UNCHANGED db
        /\ Len(docs) = (IF n < 20 THEN n ELSE 20)
        /\ \A k \in 1..Len(docs) :
             /\ docs[k].username = u
             /\ docs[k]._id = <<"str", Newest(u, k)>>
             /\ docs[k].game = gameresult[Newest(u, k)].game
             /\ docs[k].bet = gameresult[Newest(u, k)].bet
             /\ docs[k].payout = gameresult[Newest(u, k)].payout
             /\ docs[k].balance_after = gameresult[Newest(u, k)].balance_after
             /\ docs[k].details = gameresult[Newest(u, k)].details

C12_History == [][C12_ReadStep]_vars

\* ann has 21 records with bob's round in between, and her history holds
\* her 20 newest, newest first: her first round is left out
C12_Witness ==
  /\ resp.op = "history" /\ resp.username = "ann"
  /\ Len(gameresult) = 22
  /\ gameresult[12].username = "bob"
  /\ Len(resp.body) = 20
  /\ resp.body[1].balance_after = DEFAULT_BALANCE - 21
  /\ resp.body[20].balance_after = DEFAULT_BALANCE - 2

(***************************************************************************)
(* C13  Shoe exhaustion top-up.  A draw on an empty shoe does not fail: it *)
(* tops the shoe up with a fresh 6-deck shoe with one card burned (311     *)
(* cards) and returns one valid card token of it.  And no handler pops a   *)
(* card from an empty shoe: every card on the table of a hand was popped   *)
(* from the hand's own shoe, which still holds the rest of its 311 cards,  *)
(* and every card a response shows is a valid card token.                  *)
(***************************************************************************)
CardTokens == {<<RANKS[i], SUITS[j]>> : i \in 1..Len(RANKS), j \in 1..Len(SUITS)}

\* cards is part of six decks: valid tokens, none more than six times
FromSixDecks(cards) ==
  /\ \A k \in 1..Len(cards) : cards[k] \in CardTokens
  /\ \A c \in CardTokens : Count(cards, c) <= 6

C13_DrawOnEmpty ==
  /\ draw(<<>>, WholeShoes) # {}
  /\ \A d \in draw(<<>>, WholeShoes) :
       /\ d[1] \in CardTokens
       /\ Len(d[2]) = 310
       /\ FromSixDecks(Append(d[2], d[1]))

C13_HandsShoe ==
  \A i \in 1..Len(blackjackhand) :
    LET h == blackjackhand[i]
    IN  /\ Len(h.shoe) > 0
        /\ Len(h.shoe) + Len(h.player_cards) + Len(h.dealer_cards) = 311
        /\ FromSixDecks(h.shoe \o h.player_cards \o h.dealer_cards)

C13_Dealt ==
  (resp.op \in {"start", "hit", "stand", "double"} /\ resp.code = 200) =>
    /\ \A k \in 1..Len(resp.body.player) : resp.body.player[k] \in CardTokens
    /\ \A k \in 1..Len(resp.body.dealer) : resp.body.dealer[k] \in CardTokens

C13_ShoeTopUp == C13_DrawOnEmpty /\ C13_HandsShoe /\ C13_Dealt

\* a hit has bust the player and the resolution has drawn the dealer's third
\* card from an empty shoe
C13_Witness ==
  /\ resp.op = "hit" /\ resp.code = 200
  /\ resp.body.status = "resolved" /\ resp.body.outcome = "bust"
  /\ Len(resp.body.dealer) = 3
  /\ \E i \in 1..Len(blackjackhand) :
       /\ blackjackhand[i].status = "resolved"
       /\ Len(blackjackhand[i].player_cards) = 3
       /\ Len(blackjackhand[i].dealer_cards) = 2
       /\ Len(blackjackhand[i].shoe) = 306

(***************************************************************************)
(* C14  Blackjack hand value.  hand_value counts 10, J, Q and K as 10, 2   *)
(* to 9 at face value and aces as 11, then takes 10 off per ace while the  *)
(* total exceeds 21: the result is the largest total of at most 21 that    *)
(* counting each ace as 1 or 11 can give, or the total with every ace as 1 *)
(* when there is none.                                                     *)
(***************************************************************************)
FaceRanks == <<"2", "3", "4", "5", "6", "7", "8", "9">>
\* the value of a card that is not an ace
FaceValue(r) ==
  IF r \in {"10", "J", "Q", "K"} THEN 10
  ELSE 1 + CHOOSE k \in 1..Len(FaceRanks) : FaceRanks[k] = r

RECURSIVE OthersTotal(_)
OthersTotal(cards) ==
  IF cards = <<>> THEN 0
  ELSE (IF cards[1][1] = "A" THEN 0 ELSE FaceValue(cards[1][1]))
         + OthersTotal(Tail(cards))

\* the totals that counting each ace as 1 or 11 can give
Totals(cards) ==
  LET aces == Cardinality({k \in 1..Len(cards) : cards[k][1] = "A"})
  IN  {OthersTotal(cards) + aces + 10 * high : high \in 0..aces}

BestTotal(cards) ==
  LET good == {x \in Totals(cards) : x <= 21}
  IN  IF good # {}
      THEN CHOOSE x \in good : \A y \in good : y <= x
      ELSE CHOOSE x \in Totals(cards) : \A y \in Totals(cards) : x <= y

C14_HandValue ==
  resp.op = "hand_value" => resp.body.value = BestTotal(resp.body.cards)

\* A, A, 9 counts 21: one ace as 11 and one as 1
C14_Witness ==
  /\ resp.op = "hand_value"
  /\ Len(resp.body.cards) = 3
  /\ resp.body.cards[1][1] = "A" /\ resp.body.cards[2][1] = "A"
  /\ resp.body.cards[3][1] = "9"
  /\ resp.body.value = 21

(***************************************************************************)
(* C15  Start race.  When blackjack start requests of one username         *)
(* interleave read by read and write by write, a request that has read "no *)
(* active hand" is not stopped by a hand another request inserts           *)
(* afterwards: it goes on to insert its own hand and succeeds.  So every   *)
(* successful start that is not a natural leaves one more hand in          *)
(* player_turn, and two of them for one username are reachable.            *)
(***************************************************************************)
\* the start requests that returned an open hand
OpenedBy(u) ==
  {r \in 1..Len(inflight) :
     /\ inflight[r].op = "start" /\ inflight[r].username = u
     /\ inflight[r].pc = "done" /\ inflight[r].code = 200
     /\ inflight[r].details = <<>>}

C15_HandsPerStart ==
  Cardinality(OpenHands(blackjackhand, TableUser)) = Cardinality(OpenedBy(TableUser))

C15_RequestStep ==
  \A r \in 1..Len(inflight) :
    LET q == inflight[r]
        u == q.username
    IN  /\ (q.pc = "find_existing" /\ inflight'[r].pc # q.pc) =>
             IF OpenHands(blackjackhand, u) = {}
             THEN inflight'[r].pc = "get_balance" /\ UNCHANGED <<db, resp>>
             ELSE /\ inflight'[r].pc = "done" /\ inflight'[r].code = 400
                  /\ UNCHANGED db
        /\ (q.pc = "get_balance" /\ inflight'[r].pc # q.pc
              /\ PlayersOf(u) # {} /\ BalanceIn(player, u) >= q.bet) =>
             /\ inflight'[r].pc \in {"create_hand", "find_player"}
             /\ UNCHANGED <<db, resp>>
        /\ (q.pc = "create_hand" /\ inflight'[r].pc # q.pc) =>
             /\ inflight'[r].pc = "done" /\ inflight'[r].code = 200
             /\ Len(blackjackhand') = Len(blackjackhand) + 1
             /\ SubSeq(blackjackhand', 1, Len(blackjackhand)) = blackjackhand
             /\ blackjackhand'[Len(blackjackhand')].username = u
             /\ blackjackhand'[Len(blackjackhand')].status = "player_turn"
             /\ resp'.code = 200 /\ resp'.body.status = "player_turn"
             /\ UNCHANGED <<player, gameresult>>

C15_StartRace == []C15_HandsPerStart /\ [][C15_RequestStep]_vars

\* both requests read "no active hand" before either inserted, both have
\* succeeded, and the username has two hands in player_turn
C15_Witness ==
  /\ Len(inflight) = 2
  /\ \A r \in 1..2 :
       /\ inflight[r].op = "start" /\ inflight[r].pc = "done"
       /\ inflight[r].code = 200
  /\ Cardinality(OpenHands(blackjackhand, TableUser)) = 2

(***************************************************************************)
(* C16  Lost balance update.  When balance-adjusting requests of one       *)
(* username interleave read by read and write by write, each writes        *)
(* max(0, the balance it read + its payout), whatever the document holds   *)
(* by then: the last write wins, and a final balance that carries only one *)
(* of two payouts, unlike either order of applying both, is reachable.     *)
(***************************************************************************)
C16_AdjustStep ==
  \A r \in 1..Len(inflight) :
    LET q == inflight[r]
        u == q.username
    IN  /\ (q.pc = "find_player" /\ inflight'[r].pc = "update_balance") =>
             /\ inflight'[r].balance = BalanceIn(player, u)
             /\ UNCHANGED <<db, resp>>
        /\ (q.pc = "update_balance" /\ inflight'[r].pc # q.pc) =>
             /\ BalanceIn(player', u) = Floor0(q.balance + q.payout)
             /\ inflight'[r].new_balance = Floor0(q.balance + q.payout)
             /\ inflight'[r].pc = "create_result"
             /\ UNCHANGED <<blackjackhand, gameresult, resp>>
        /\ (q.pc = "create_result" /\ inflight'[r].pc # q.pc) =>
             /\ Recorded
             /\ NewResult.username = u
             /\ NewResult.payout = q.payout
             /\ NewResult.balance_after = q.new_balance
             /\ inflight'[r].code = 200
             /\ UNCHANGED <<player, blackjackhand>>

C16_LostUpdate == [][C16_AdjustStep]_vars

\* two rounds have read the same balance and both are recorded; the balance
\* carries the payout of one of them only
C16_Witness ==
  /\ Len(inflight) = 2
  /\ \A r \in 1..2 : inflight[r].pc = "done" /\ inflight[r].code = 200
  /\ Len(gameresult) = 2
  /\ inflight[1].balance = inflight[2].balance
  /\ LET b == inflight[1].balance
         p1 == inflight[1].payout
         p2 == inflight[2].payout
         now == BalanceIn(player, TableUser)
     IN  /\ p1 # 0 /\ p2 # 0
         /\ now \in {Floor0(b + p1), Floor0(b + p2)}
         /\ now # Floor0(Floor0(b + p1) + p2)
         /\ now # Floor0(Floor0(b + p2) + p1)

(***************************************************************************)
(* C17  Hand lifecycle.  A blackjackhand record is stored in player_turn   *)
(* and only ever moves to resolved: dealer_turn is never stored, resolved  *)
(* is never left and no record is removed.  After a hit that busts, a      *)
(* stand or a double, no hand of that username is in player_turn and the   *)
(* hands of other usernames are as they were.  A hit, stand or double for  *)
(* a username without a hand in player_turn fails with "No active hand"    *)
(* and changes nothing.                                                    *)
(***************************************************************************)
C17_Statuses ==
  \A i \in 1..Len(blackjackhand) :
    blackjackhand[i].status \in {"player_turn", "resolved"}

C17_StatusStep ==
  /\ Len(blackjackhand') >= Len(blackjackhand)
  /\ \A i \in 1..Len(blackjackhand) :
       /\ blackjackhand'[i].username = blackjackhand[i].username
       /\ blackjackhand[i].status = "resolved" =>
            blackjackhand'[i].status = "resolved"
  /\ \A i \in (Len(blackjackhand) + 1)..Len(blackjackhand') :
       blackjackhand'[i].status = "player_turn"

PlayOps == {"hit", "stand", "double"}

C17_ResolveStep ==
  (resp'.op \in PlayOps /\ resp'.code = 200 /\ resp'.body.status = "resolved") =>
    /\ OpenHands(blackjackhand, resp'.username) # {}
    /\ OpenHands(blackjackhand', resp'.username) = {}
    /\ Len(blackjackhand') = Len(blackjackhand)
    /\ \A i \in 1..Len(blackjackhand) :
         blackjackhand[i].username # resp'.username =>
           blackjackhand'[i] = blackjackhand[i]

C17_NoHandStep ==
  (resp'.op \in PlayOps /\ OpenHands(blackjackhand, resp'.username) = {}) =>
    /\ Rejected(resp', 404, "No active hand")
    /\ UNCHANGED db

C17_HandLifecycle ==
  /\ []C17_Statuses
  /\ [][C17_StatusStep /\ C17_ResolveStep /\ C17_NoHandStep]_vars

\* bob's stand has resolved his hand while ann's hand stays in player_turn
C17_Witness ==
  /\ resp.op = "stand" /\ resp.username = "bob" /\ resp.code = 200
  /\ OpenHands(blackjackhand, "bob") = {}
  /\ OpenHands(blackjackhand, "ann") # {}
  /\ \E i \in 1..Len(blackjackhand) :
       blackjackhand[i].username = "bob" /\ blackjackhand[i].status = "resolved"

(***************************************************************************)
(* C18  History matches balance.  With requests handled one at a time,     *)
(* every resolved round (natural start, hit that busts, stand, double,     *)
(* slots spin, baccarat play) adjusts one balance once and inserts one     *)
(* GameResult whose balance_after is the balance just written.  So in      *)
(* every reachable state the balance_after of a username's most recent     *)
(* GameResult is that player's persisted balance, and no step modifies or  *)
(* deletes a GameResult that exists.                                       *)
(***************************************************************************)
RoundResolved(r) ==
  /\ r.code = 200
  /\ \/ r.op \in {"slots", "baccarat"}
     \/ r.op \in {"start", "hit", "stand", "double"} /\ r.body.status = "resolved"

C18_Latest ==
  \A u \in Users :
    ResultsOf(u) # {} =>
      /\ PlayersOf(u) # {}
      /\ gameresult[Newest(u, 1)].balance_after = BalanceIn(player, u)

C18_KeepStep ==
  /\ Len(gameresult') \in {Len(gameresult), Len(gameresult) + 1}
  /\ SubSeq(gameresult', 1, Len(gameresult)) = gameresult

C18_RoundStep ==
  RoundResolved(resp') =>
    /\ Recorded
    /\ NewResult.username = resp'.username
    /\ NewResult.balance_after = BalanceIn(player', resp'.username)
    /\ BalanceIn(player', resp'.username) =
         Floor0(BalanceIn(player, resp'.username) + NewResult.payout)
    /\ \A i \in 1..Len(player) :
         player[i].username # resp'.username => player'[i] = player[i]

C18_HistoryMatchesBalance ==
  /\ []C18_Latest
  /\ [][C18_KeepStep /\ C18_RoundStep]_vars

\* two rounds of ann on record, a win after a loss, the older one stale
C18_Witness ==
  /\ ResultsOf("ann") = {1, 2}
  /\ gameresult[2].payout > 0
  /\ gameresult[1].balance_after # gameresult[2].balance_after
  /\ gameresult[2].balance_after = BalanceIn(player, "ann")
  /\ RoundResolved(resp) /\ resp.username = "ann"

(***************************************************************************)
(* C19  Balance frame.  A player's balance changes only in a step that     *)
(* resolves a round for that same username (natural start, hit that        *)
(* busts, stand, double, slots spin, baccarat play).  Every other step     *)
(* leaves every balance as it was: a start that is not a natural (the bet  *)
(* is not deducted when the hand is opened), a hit that does not bust,     *)
(* lookups, history reads, failed requests and requests of another         *)
(* username; and no player record is ever deleted.                         *)
(***************************************************************************)
C19_FrameStep ==
  /\ Len(player') >= Len(player)
  /\ \A i \in 1..Len(player) :
       /\ player'[i].username = player[i].username
       /\ player'[i].balance # player[i].balance =>
            /\ RoundResolved(resp')
            /\ resp'.username = player[i].username
  /\ ~RoundResolved(resp') => SubSeq(player', 1, Len(player)) = player

C19_BalanceFrame == [][C19_FrameStep]_vars

\* ann's hand is open with her bet of 2 not deducted from her 3, and bob
\* has just lost a round that took his balance from 3 to 1
C19_Witness ==
  /\ OpenHands(blackjackhand, "ann") # {}
  /\ PlayersOf("ann") # {} /\ BalanceIn(player, "ann") = 3
  /\ ResultsOf("ann") = {}
  /\ RoundResolved(resp) /\ resp.username = "bob"
  /\ PlayersOf("bob") # {} /\ BalanceIn(player, "bob") = 1

(***************************************************************************)
(* C20  Wager covered at resolution.  With requests handled one at a       *)
(* time, whenever a hand is resolved by a hit that busts, a stand or a     *)
(* double, the player's balance just before the adjustment is at least     *)
(* the bet used for the resolution, so the recorded balance_after is the   *)
(* balance before plus the payout, with nothing absorbed by the floor at   *)
(* zero.                                                                   *)
(***************************************************************************)
C20_CoveredStep ==
  (resp'.op \in PlayOps /\ RoundResolved(resp')) =>
    /\ BalanceIn(player, resp'.username) >= NewResult.bet
    /\ NewResult.balance_after =
         BalanceIn(player, resp'.username) + NewResult.payout

C20_WagerCovered == [][C20_CoveredStep]_vars

====
